---- MODULE Spec2Model ----
(***************************************************************************)
(* Low-volatility screener (screener.py): the ingest loop over the ticker  *)
(* universe, the universe check, the two quantile filters, the composite   *)
(* score, the top-N selection and the JSON output, plus the metric helpers *)
(* (calculate_volatility, calculate_momentum, get_div_yield).              *)
(*                                                                         *)
(* Numbers.  A Python float is modelled exactly, as a rational             *)
(* [num, den] with den > 0; NaN is the pair with den = 0.  A value the     *)
(* code has rounded to two decimals has den = 100, the score (rounded to   *)
(* one decimal) is kept as an integer number of tenths.  Prices and        *)
(* dividend amounts are integers (hundredths of a krona); the provider's   *)
(* trailing yield fraction is an integer number of 1e-5.  An optional      *)
(* number (dict.get) is <<>> for None and <<v>> for v.  Rounding is        *)
(* round-half-to-even on the exact value.                                  *)
(*                                                                         *)
(* Records keep the three metric columns; the ticker, name and sector      *)
(* columns are carried through the pipeline untouched and are left out.    *)
(***************************************************************************)
EXTENDS Integers, Sequences, FiniteSets

\* ---------------------------------------------------------------- bounds

\* Number of entries of the universe list TICKERS that the model walks.
NumTickers == 12

\* ------------------------------------------------------- configuration

\* VOLATILITY_PERCENTILE = 0.30, in hundredths.
VOLATILITY_PERCENTILE == 30

\* MOMENTUM_CUTOFF = 0.25, in hundredths.
MOMENTUM_CUTOFF == 25

TOP_N == 10

\* W_VOL = 0.40, W_MOM = 0.35, W_YILD = 0.25, in hundredths.
W_VOL == 40

W_MOM == 35

W_YILD == 25

\* ------------------------------------------------------------ arithmetic

Rat(n, d) == [num |-> n, den |-> d]

NaN == Rat(0, 0)

\* pd.isna(x)
IsNaN(x) == x.den = 0

\* x <= y and x < y on floats: false when either side is NaN.
Leq(x, y) == ~IsNaN(x) /\ ~IsNaN(y) /\ x.num * y.den <= y.num * x.den

Less(x, y) == ~IsNaN(x) /\ ~IsNaN(y) /\ x.num * y.den < y.num * x.den

None == <<>>

Some(v) == <<v>>

Min(a, b) == IF a <= b THEN a ELSE b

\* n/d rounded to the nearest integer, ties to the even one (d > 0).
RoundDiv(n, d) ==
    LET q == n \div d
        r == n % d
    IN  IF 2 * r < d THEN q
        ELSE IF 2 * r > d THEN q + 1
        ELSE IF q % 2 = 0 THEN q ELSE q + 1

\* round(x, 2); round(nan, 2) is nan.
Round2(x) == IF IsNaN(x) THEN NaN ELSE Rat(RoundDiv(x.num * 100, x.den), 100)

\* Series.round(1): tenths.
Round1(x) == RoundDiv(x.num * 10, x.den)

\* int(x) of a value given in tenths: truncation toward zero.
IntOfTenths(s) == IF s >= 0 THEN s \div 10 ELSE -((-s) \div 10)

\* f"{x:.0f}" of a value given in tenths: the nearest integer, ties to even.
RoundOfTenths(s) == RoundDiv(s, 10)

\* ------------------------------------------------------ metric helpers

\* len(prices.pct_change().dropna()): the first return is undefined.
NumReturns(prices) == IF prices.closes = 0 THEN 0 ELSE prices.closes - 1

\* prices.sigma stands for returns.std() * sqrt(252) * 100, a float (NaN
\* when a return is undefined).
calculate_volatility(prices) ==
    IF NumReturns(prices) < 50 THEN NaN
    ELSE prices.sigma

\* prices.first is prices.iloc[0], prices.month is prices.iloc[-21].
calculate_momentum(prices) ==
    IF prices.closes < 220 THEN NaN
    ELSE IF prices.first = 0 THEN NaN
    ELSE Rat((prices.month - prices.first) * 100, prices.first)

\* Python truthiness of an optional number: None and 0 are false.
Truthy(x) == x # None /\ x[1] # 0

\* a or b
Either(a, b) == IF Truthy(a) THEN a ELSE b

\* The number held by an optional number that is not None.
Val(x) == x[1]

\* get_div_yield without the 0 < dy < 20 sanity check.
get_div_yield_nosanity(ticker_info) ==
    LET div_rate == ticker_info.trailingAnnualDividendRate
        price    == Either(ticker_info.currentPrice, ticker_info.regularMarketPrice)
        dy2      == ticker_info.trailingAnnualDividendYield
    IN  IF Truthy(div_rate) /\ Truthy(price) /\ Val(price) > 0 /\ Val(div_rate) > 0
        THEN Round2(Rat(Val(div_rate) * 100, Val(price)))
        ELSE IF Truthy(dy2) /\ 0 < Val(dy2) /\ Val(dy2) < 20000
        THEN Round2(Rat(Val(dy2) * 100, 100000))
        ELSE Rat(0, 100)

\* dy = div_rate / price * 100 is accepted when 0 < dy < 20; the trailing
\* yield fraction dy2 (in 1e-5) when 0 < dy2 < 0.20, as dy2 * 100.
get_div_yield(ticker_info) ==
    LET div_rate == ticker_info.trailingAnnualDividendRate
        price    == Either(ticker_info.currentPrice, ticker_info.regularMarketPrice)
        dy2      == ticker_info.trailingAnnualDividendYield
        dy       == Rat(Val(div_rate) * 100, Val(price))
    IN  IF /\ Truthy(div_rate) /\ Truthy(price) /\ Val(price) > 0 /\ Val(div_rate) > 0
           /\ Less(Rat(0, 1), dy) /\ Less(dy, Rat(20, 1))
        THEN Round2(dy)
        ELSE IF Truthy(dy2) /\ 0 < Val(dy2) /\ Val(dy2) < 20000
        THEN Round2(Rat(Val(dy2) * 100, 100000))
        ELSE Rat(0, 100)

\* ------------------------------------------------- the data provider
\* What yfinance returns is outside the program.  A price history is
\*   [rows    len(hist),
\*    closes  len(hist['Close'].dropna()),
\*    first   prices.iloc[0],  month  prices.iloc[-21],
\*    sigma   the annualised volatility of its returns],
\* a fundamentals snapshot the four fields get_div_yield reads.  A market
\* says, per metric, how the values the provider serves vary over the
\* universe; whether a ticker's fetch succeeds is open at every ticker.

Markets == [vol : {"spread", "fall", "flat", "steps"}, mom : {"flat", "mixed"},
            yield : {"flat", "mixed"}]

Hist(rows, closes, first, month, sigma) ==
    [rows |-> rows, closes |-> closes, first |-> first, month |-> month,
     sigma |-> sigma]

Info(rate, current, regular, yield) ==
    [trailingAnnualDividendRate |-> rate, currentPrice |-> current,
     regularMarketPrice |-> regular, trailingAnnualDividendYield |-> yield]

\* Histories from which no record can be built: empty, under 50 rows, 50
\* rows (49 returns), 219 closes, a first price of 0, an undefined return.
BadHistories ==
    { Hist(0, 0, 0, 0, NaN),
      Hist(49, 49, 10000, 11000, Rat(15000, 1000)),
      Hist(50, 50, 10000, 11000, Rat(15000, 1000)),
      Hist(260, 219, 10000, 11000, Rat(15000, 1000)),
      Hist(260, 260, 0, 11000, Rat(15000, 1000)),
      Hist(260, 260, 10000, 11000, NaN) }

\* The volatility of ticker number t (1-based), in thousandths of a percent:
\* 5, 6, 7, ... percent, or 16, 15, 14, ... percent, or 15 percent
\* throughout, or two levels.
Sigma(m, t) ==
    CASE m.vol = "spread" -> (4 + t) * 1000
      [] m.vol = "fall"   -> (17 - t) * 1000
      [] m.vol = "flat"   -> 15000
      [] OTHER            -> IF t % 3 = 0 THEN 12000 ELSE 18337

\* <<prices.iloc[0], prices.iloc[-21]>> of ticker number t: +10 percent
\* throughout, or -3.34, +10 and +25 percent in turn.
Prices(m, t) ==
    CASE m.mom = "flat" -> <<10000, 11000>>
      [] t % 3 = 0      -> <<30000, 28999>>
      [] t % 3 = 1      -> <<10000, 11000>>
      [] OTHER          -> <<10000, 12500>>

\* Full histories of ticker number t in market m: 260 or 220 closes, and a
\* volatility that rounds to the same two decimals.
GoodHistories(m, t) ==
    { Hist(260, 260, Prices(m, t)[1], Prices(m, t)[2], Rat(Sigma(m, t), 1000)),
      Hist(260, 220, Prices(m, t)[1], Prices(m, t)[2], Rat(Sigma(m, t) + 4, 1000)) }

Histories(m, t) == BadHistories \cup GoodHistories(m, t)

\* Fundamentals of ticker number t: a 2.00 dividend on a price of 100.00
\* throughout; or, in turn, no usable dividend data, that 2 percent, and
\* 3.5 percent (from the trailing yield when the computed yield is 50
\* percent, or computed on the regular market price).
Infos(m, t) ==
    CASE m.yield = "flat" -> { Info(Some(200), Some(10000), None, Some(2000)) }
      [] t % 3 = 0 -> { Info(None, None, None, None),
                        Info(Some(5000), Some(10000), None, Some(25000)) }
      [] t % 3 = 1 -> { Info(Some(200), Some(10000), None, Some(2000)) }
      [] OTHER     -> { Info(Some(5000), Some(10000), None, Some(3500)),
                        Info(Some(350), Some(0), Some(10000), None) }

\* ------------------------------------------------------------ the state

VARIABLES
    market,          \* the provider's data family (outside the program)
    pc,              \* where run_screener is
    i,               \* tickers the ingest loop has visited
    records,         \* the collected table
    skipped,         \* the skipped counter
    universe_count,  \* len(df) before the filters
    df,              \* the data frame
    top10,           \* the selected rows
    output,          \* the output file
    ticker_info,     \* get_div_yield's argument
    dy               \* get_div_yield's result

vars == <<market, pc, i, records, skipped, universe_count, df, top10, output,
          ticker_info, dy>>

NoFile == [written |-> FALSE, universe_count |-> 0, stocks |-> <<>>]

NoInfo == Info(None, None, None, None)

Init ==
    /\ market \in Markets
    /\ pc = "ingest"
    /\ i = 0
    /\ records = <<>>
    /\ skipped = 0
    /\ universe_count = 0
    /\ df = <<>>
    /\ top10 = <<>>
    /\ output = NoFile
    /\ ticker_info = NoInfo
    /\ dy = NaN

\* ------------------------------------------------------ the ingest loop

\* The loop body runs for ticker i + 1 while tickers remain.
InLoop == pc = "ingest" /\ i < NumTickers

\* hist.empty or len(hist) < 50
InsufficientHistory(hist) == hist.rows = 0 \/ hist.rows < 50

\* A metrics test that lets a record through when only one metric is NaN.
MetricsMissingBoth(vol, mom) == IsNaN(vol) /\ IsNaN(mom)

\* pd.isna(vol) or pd.isna(mom)
MetricsMissing(vol, mom) == IsNaN(vol) \/ IsNaN(mom)

\* The record appended for a ticker.
NewRecord(vol, mom, yield) ==
    [volatility |-> Round2(vol), momentum |-> Round2(mom),
     div_yield |-> Round2(yield)]

\* A skip that forgets the counter.
SkipUncounted ==
    /\ i' = i + 1
    /\ UNCHANGED <<market, pc, records, skipped, universe_count, df, top10,
                   output, ticker_info, dy>>

\* The ticker is skipped: the counter goes up, the table is left alone.
Skip ==
    /\ skipped' = skipped + 1
    /\ i' = i + 1
    /\ UNCHANGED <<market, pc, records, universe_count, df, top10, output,
                   ticker_info, dy>>

\* yf.Ticker(ticker) or stock.history(...) raises: the except clause.
IngestHistoryRaises ==
    /\ InLoop
    /\ Skip

\* "Insufficient price history"
IngestInsufficientHistory ==
    /\ InLoop
    /\ \E hist \in Histories(market, i + 1) : InsufficientHistory(hist)
    /\ Skip

\* "Could not compute metrics"
IngestMetricsMissing ==
    /\ InLoop
    /\ \E hist \in Histories(market, i + 1) :
          /\ ~InsufficientHistory(hist)
          /\ MetricsMissing(calculate_volatility(hist), calculate_momentum(hist))
    /\ Skip

\* stock.info (or a helper reading it) raises after both metrics were
\* computed: the except clause.
IngestInfoRaises ==
    /\ InLoop
    /\ \E hist \in Histories(market, i + 1) :
          /\ ~InsufficientHistory(hist)
          /\ ~MetricsMissing(calculate_volatility(hist), calculate_momentum(hist))
    /\ Skip

\* The ticker's record is appended.
IngestRecord ==
    /\ InLoop
    /\ \E hist \in Histories(market, i + 1), info \in Infos(market, i + 1) :
          LET vol == calculate_volatility(hist)
              mom == calculate_momentum(hist)
          IN  /\ ~InsufficientHistory(hist)
              /\ ~MetricsMissing(vol, mom)
              /\ records' = Append(records, NewRecord(vol, mom, get_div_yield(info)))
    /\ i' = i + 1
    /\ UNCHANGED <<market, pc, skipped, universe_count, df, top10, output,
                   ticker_info, dy>>

\* ---------------------------------------------------------- the pipeline

\* pd.DataFrame(records): the rows with their index labels 0, 1, ...
DataFrame(recs) ==
    [k \in 1..Len(recs) |->
        [idx |-> k - 1, volatility |-> recs[k].volatility,
         momentum |-> recs[k].momentum, div_yield |-> recs[k].div_yield,
         rank_vol |-> NaN, rank_mom |-> NaN, rank_yild |-> NaN, score |-> 0]]

\* A column of a frame, as a sequence.
Col(frame, c) == [k \in 1..Len(frame) |-> frame[k][c]]

\* The k-th smallest value of a sequence of floats (k in 1..Len(s)).
KthSmallest(s, k) ==
    LET v == CHOOSE x \in {s[j] : j \in 1..Len(s)} :
                 /\ Cardinality({j \in 1..Len(s) : Less(s[j], x)}) < k
                 /\ k <= Cardinality({j \in 1..Len(s) : Leq(s[j], x)})
    IN  v

\* Series.quantile(q), q in hundredths, linear interpolation between the
\* order statistics around (n - 1) * q; NaN for an empty series.  The values
\* of a column share one denominator.
Quantile(s, q) ==
    LET n  == Len(s)
        at == (n - 1) * q
        lo == at \div 100
        g  == at % 100
        a  == KthSmallest(s, lo + 1)
        b  == KthSmallest(s, Min(lo + 2, n))
    IN  IF n = 0 THEN NaN
        ELSE Rat(a.num * 100 + (b.num - a.num) * g, a.den * 100)

\* A volatility test that drops the rows at the threshold.
KeepVolatilityStrict(row, threshold) == Less(row.volatility, threshold)

\* df['volatility'] <= vol_threshold
KeepVolatility(row, threshold) == Leq(row.volatility, threshold)

\* A momentum test that drops the rows at the threshold.
KeepMomentumStrict(row, threshold) == Less(threshold, row.momentum)

\* df['momentum'] >= mom_threshold
KeepMomentum(row, threshold) == Leq(threshold, row.momentum)

\* Series.rank(ascending=True), ties averaged, times two.
RankAscending2(s, k) ==
    2 * Cardinality({j \in 1..Len(s) : Less(s[j], s[k])})
      + Cardinality({j \in 1..Len(s) : s[j] = s[k]}) + 1

\* Series.rank(ascending=False), ties averaged, times two.
RankDescending2(s, k) ==
    2 * Cardinality({j \in 1..Len(s) : Less(s[k], s[j])})
      + Cardinality({j \in 1..Len(s) : s[j] = s[k]}) + 1

\* A normalisation by n - 1 instead of n.
NormalizeOffByOne(rank2, n) == IF n = 1 THEN NaN ELSE Rat(rank2 * 100, 2 * (n - 1))

\* rank / n * 100; 0/0 is NaN.
Normalize(rank2, n) == IF n = 0 THEN NaN ELSE Rat(rank2 * 100, 2 * n)

\* (100 - rank) * w, w in hundredths.
Weighted(rank, w) == Rat((100 * rank.den - rank.num) * w, rank.den * 100)

\* The composite score of a ranked row, rounded to one decimal (tenths).
\* The three ranks share the denominator 2n.
Score(row) ==
    LET v == Weighted(row.rank_vol, W_VOL)
        m == Weighted(row.rank_mom, W_MOM)
        y == Weighted(row.rank_yild, W_YILD)
    IN  Round1(Rat(v.num + m.num + y.num, v.den))

\* Lines 334-343: the three rank columns and the score column.
Ranked(frame) ==
    LET n == Len(frame)
        volatility == Col(frame, "volatility")
        momentum   == Col(frame, "momentum")
        div_yield  == Col(frame, "div_yield")
        withRanks ==
            [k \in 1..n |->
                [frame[k] EXCEPT
                    !.rank_vol  = Normalize(RankAscending2(volatility, k), n),
                    !.rank_mom  = Normalize(RankDescending2(momentum, k), n),
                    !.rank_yild = Normalize(RankDescending2(div_yield, k), n)]]
    IN  [k \in 1..n |-> [withRanks[k] EXCEPT !.score = Score(withRanks[k])]]

\* The first n rows as they stand, with no regard to the score.
FirstRows(n, frame) == SubSeq(frame, 1, Min(n, Len(frame)))

\* DataFrame.nlargest(n, 'score'), keep='first': the rows in descending
\* score order, rows of equal score in frame order, cut to the first n.
NLargest(n, frame) ==
    LET place(k) ==
            Cardinality({j \in 1..Len(frame) : frame[j].score > frame[k].score})
              + Cardinality({j \in 1..k : frame[j].score = frame[k].score})
        sorted == [p \in 1..Len(frame) |->
                      frame[CHOOSE k \in 1..Len(frame) : place(k) = p]]
    IN  SubSeq(sorted, 1, Min(n, Len(frame)))

\* A rank column that is the 0-based index itself.
RankOfIndexZeroBased(index) == index

\* top10.index + 1
RankOfIndex(index) == index + 1

\* reset_index(drop=True) and the rank column.  `orig` keeps the index
\* label the row had in df, which reset_index drops: it is read only to
\* state the order of the selection.
Selected(sel) ==
    [p \in 1..Len(sel) |->
        [idx |-> p - 1, rank |-> RankOfIndex(p - 1), orig |-> sel[p].idx,
         volatility |-> sel[p].volatility, momentum |-> sel[p].momentum,
         div_yield |-> sel[p].div_yield, score |-> sel[p].score]]

\* One entry of the "stocks" array.
Stock(r) ==
    [rank |-> r.rank, volatility |-> r.volatility, momentum |-> r.momentum,
     div_yield |-> r.div_yield, score |-> IntOfTenths(r.score)]

\* A universe check that never fires.
UniverseTooSmallNever(recs) == FALSE

\* len(records) < TOP_N
UniverseTooSmall(recs) == Len(recs) < TOP_N

\* Lines 316-318: the run ends without output.
UniverseCheckAbort ==
    /\ pc = "ingest" /\ i = NumTickers
    /\ UniverseTooSmall(records)
    /\ pc' = "aborted"
    /\ UNCHANGED <<market, i, records, skipped, universe_count, df, top10,
                   output, ticker_info, dy>>

\* Lines 320-326: the frame is built and the volatility filter applied.
VolatilityFilter ==
    /\ pc = "ingest" /\ i = NumTickers
    /\ ~UniverseTooSmall(records)
    /\ LET frame == DataFrame(records)
           vol_threshold == Quantile(Col(frame, "volatility"), VOLATILITY_PERCENTILE)
       IN  /\ universe_count' = Len(frame)
           /\ df' = SelectSeq(frame, LAMBDA row : KeepVolatility(row, vol_threshold))
    /\ pc' = "momentum"
    /\ UNCHANGED <<market, i, records, skipped, top10, output, ticker_info, dy>>

\* Lines 329-331.
MomentumFilter ==
    /\ pc = "momentum"
    /\ LET mom_threshold == Quantile(Col(df, "momentum"), MOMENTUM_CUTOFF)
       IN  df' = SelectSeq(df, LAMBDA row : KeepMomentum(row, mom_threshold))
    /\ pc' = "score"
    /\ UNCHANGED <<market, i, records, skipped, universe_count, top10, output,
                   ticker_info, dy>>

\* Lines 334-343.
CompositeScore ==
    /\ pc = "score"
    /\ df' = Ranked(df)
    /\ pc' = "top"
    /\ UNCHANGED <<market, i, records, skipped, universe_count, top10, output,
                   ticker_info, dy>>

\* Lines 346-347.
TopN ==
    /\ pc = "top"
    /\ top10' = Selected(NLargest(TOP_N, df))
    /\ pc' = "output"
    /\ UNCHANGED <<market, i, records, skipped, universe_count, df, output,
                   ticker_info, dy>>

\* Lines 361-380: the output object is built and written.
WriteOutput ==
    /\ pc = "output"
    /\ output' = [written |-> TRUE, universe_count |-> universe_count,
                  stocks |-> [p \in 1..Len(top10) |-> Stock(top10[p])]]
    /\ pc' = "done"
    /\ UNCHANGED <<market, i, records, skipped, universe_count, df, top10,
                   ticker_info, dy>>

\* ------------------------------------------- get_div_yield on its own

\* The optional numbers get_div_yield is applied to: dividend amounts and
\* prices in hundredths of a krona, trailing yield fractions in 1e-5.
DividendRates ==
    {None, Some(-200), Some(0), Some(1), Some(200), Some(500), Some(1999),
     Some(2000), Some(5000)}

CurrentPrices == {None, Some(0), Some(-10000), Some(1000), Some(10000)}

RegularPrices == {None, Some(0), Some(25), Some(10000)}

TrailingYields ==
    {None, Some(-100), Some(0), Some(1), Some(3500), Some(19999), Some(20000),
     Some(25000)}

InitYield ==
    /\ market = [vol |-> "flat", mom |-> "flat", yield |-> "flat"]
    /\ pc = "yield"
    /\ i = 0
    /\ records = <<>>
    /\ skipped = 0
    /\ universe_count = 0
    /\ df = <<>>
    /\ top10 = <<>>
    /\ output = NoFile
    /\ ticker_info \in { Info(r, c, g, y) : r \in DividendRates, c \in CurrentPrices,
                                           g \in RegularPrices, y \in TrailingYields }
    /\ dy = NaN

\* dy = get_div_yield(info)
GetDivYield ==
    /\ pc = "yield"
    /\ dy' = get_div_yield(ticker_info)
    /\ pc' = "returned"
    /\ UNCHANGED <<market, i, records, skipped, universe_count, df, top10,
                   output, ticker_info>>

NextYield == GetDivYield

SpecYield == InitYield /\ [][NextYield]_vars

\* ------------------------------------------------------- run_screener

Next ==
    \/ IngestHistoryRaises
    \/ IngestInsufficientHistory
    \/ IngestMetricsMissing
    \/ IngestInfoRaises
    \/ IngestRecord
    \/ UniverseCheckAbort
    \/ VolatilityFilter
    \/ MomentumFilter
    \/ CompositeScore
    \/ TopN
    \/ WriteOutput

Spec == Init /\ [][Next]_vars

\* ---------------------------------------------------------- properties

\* The loop is over and the universe check has been decided.
PastIngest == pc \in {"aborted", "momentum", "score", "top", "output", "done"}

\* A filter has run on the frame.
Filtered == pc \in {"momentum", "score", "top", "output", "done"}

\* The frame carries its rank and score columns.
Scored == pc \in {"top", "output", "done"}

\* C1.  Universe check: whenever the ingest loop has collected fewer than
\* TOP_N valid records, the run ends in the aborted state with no output
\* file written and no filter, ranking or selection stage executed.
UniverseCheckAborts ==
    /\ (PastIngest /\ Len(records) < TOP_N) =>
          /\ pc = "aborted"
          /\ output = NoFile
          /\ df = <<>> /\ top10 = <<>> /\ universe_count = 0
    /\ pc = "aborted" => (Len(records) < TOP_N /\ ~output.written)

\* C1 witness: a run aborted with 5 valid records.
UniverseCheckAbortsWitness ==
    pc = "aborted" /\ Len(records) = 5 /\ i = NumTickers

\* C2.  Per-ticker failure isolation: every step of the loop visits the next
\* ticker (i goes up by one, the loop does not end early) and either appends
\* exactly one record to the table or adds exactly one to the skipped
\* counter; so len(records) + skipped is the number of tickers visited, and
\* is len(TICKERS) once the loop is over, after which neither changes.
IngestAccounting ==
    [][ /\ Len(records') + skipped' = i'
        /\ i' <= NumTickers
        /\ (pc = "ingest" /\ i < NumTickers) =>
              /\ i' = i + 1
              /\ pc' = "ingest"
              /\ \/ /\ Len(records') = Len(records) + 1
                    /\ SubSeq(records', 1, Len(records)) = records
                    /\ skipped' = skipped
                 \/ /\ records' = records
                    /\ skipped' = skipped + 1
        /\ ~(pc = "ingest" /\ i < NumTickers) =>
              /\ i = NumTickers
              /\ i' = i /\ records' = records /\ skipped' = skipped
      ]_vars

\* C2 witness: the loop is over, three tickers were skipped and the others
\* recorded.
IngestAccountingWitness ==
    PastIngest /\ i = NumTickers /\ skipped = 3 /\ Len(records) = NumTickers - 3

\* C3.  Record validity: every record of the table, after every step, has a
\* volatility and a momentum that are not NaN; a step that skips a ticker
\* leaves the table unchanged; and a step that appends a record appends one
\* that only a history of at least 220 closes of that ticker can produce.
RecordsValid ==
    [][ /\ \A k \in 1..Len(records') :
              ~IsNaN(records'[k].volatility) /\ ~IsNaN(records'[k].momentum)
        /\ skipped' # skipped => records' = records
        /\ Len(records') > Len(records) =>
              LET new == records'[Len(records')]
              IN  /\ \E hist \in Histories(market, i + 1) :
                        /\ hist.closes >= 220
                        /\ new.volatility = Round2(calculate_volatility(hist))
                        /\ new.momentum = Round2(calculate_momentum(hist))
                  /\ \A hist \in Histories(market, i + 1) :
                        ( /\ hist.rows >= 50
                          /\ new.volatility = Round2(calculate_volatility(hist))
                          /\ new.momentum = Round2(calculate_momentum(hist)) )
                        => hist.closes >= 220
      ]_vars

\* C3 witness: a table with records in it after a ticker was skipped.
RecordsValidWitness ==
    pc = "ingest" /\ skipped = 1 /\ Len(records) = 2 /\ i = 3

\* C4.  Top-N cardinality: once the output is written, the stocks array has
\* min(TOP_N, rows of the doubly filtered frame) entries and the entry at
\* position p has rank p (ranks 1..len, ascending, no gaps, no repeats).
TopNCardinality ==
    output.written =>
        /\ Len(output.stocks) = Min(TOP_N, Len(df))
        /\ \A p \in 1..Len(output.stocks) : output.stocks[p].rank = p

\* C4 witness: the output is written from more than TOP_N surviving rows.
TopNCardinalityWitness ==
    output.written /\ Len(df) > TOP_N /\ Len(output.stocks) = TOP_N

\* The row of df with index label l.
RowOf(l) == df[CHOOSE k \in 1..Len(df) : df[k].idx = l]

\* The index labels of the selected rows.
SelectedLabels == {top10[p].orig : p \in 1..Len(top10)}

FilteredNeverEmpty ==
    /\ Filtered => Len(df) >= 1
    /\ output.written => (Len(df) >= 1 /\ Len(output.stocks) >= 1)

\* C6 witness: the output is written from an undersized frame (fewer than
\* TOP_N rows survive the filters).
FilteredNeverEmptyWitness ==
    output.written /\ Len(df) = 2 /\ universe_count >= TOP_N

\* C7.  Score serialization: every entry of the stocks array carries the
\* one-decimal score of its row rounded to the nearest integer.
ScoreSerializedRounded ==
    output.written =>
        \A p \in 1..Len(output.stocks) :
            output.stocks[p].score = RoundOfTenths(top10[p].score)

\* 0 < r <= 100 for a float r.
InRankRange(r) == Less(Rat(0, 1), r) /\ Leq(r, Rat(100, 1))

\* C8.  Rank and score bounds: every row of the ranked frame has
\* 0 < rank_vol, rank_mom, rank_yild <= 100 and a score in [0, 100].
RankScoreBounds ==
    Scored =>
        \A k \in 1..Len(df) :
            /\ InRankRange(df[k].rank_vol)
            /\ InRankRange(df[k].rank_mom)
            /\ InRankRange(df[k].rank_yild)
            /\ 0 <= df[k].score /\ df[k].score <= 1000

\* C8 witness: a ranked frame of several rows tied on all three metrics,
\* and so on all three ranks.
RankScoreBoundsWitness ==
    /\ Scored /\ Len(df) >= TOP_N
    /\ \A k \in 1..Len(df) :
          /\ df[k].rank_vol = df[1].rank_vol
          /\ df[k].rank_mom = df[1].rank_mom
          /\ df[k].rank_yild = df[1].rank_yild

\* The fields of the call being checked.
InfoRate == ticker_info.trailingAnnualDividendRate

InfoPrice ==
    IF ticker_info.currentPrice # None /\ ticker_info.currentPrice[1] # 0
    THEN ticker_info.currentPrice
    ELSE ticker_info.regularMarketPrice

InfoYield == ticker_info.trailingAnnualDividendYield

\* dividend > 0, price > 0 and 0 < dividend / price * 100 < 20
ComputedAccepted ==
    /\ InfoRate # None /\ InfoPrice # None
    /\ InfoRate[1] > 0 /\ InfoPrice[1] > 0
    /\ InfoRate[1] * 100 < 20 * InfoPrice[1]

\* 0 < trailing yield fraction < 0.20
FallbackAccepted ==
    InfoYield # None /\ 0 < InfoYield[1] /\ InfoYield[1] < 20000

\* C9.  Yield sanity and fallback order: the result is the dividend/price
\* percentage (two decimals) exactly when dividend > 0, price > 0 and the
\* percentage is strictly between 0 and 20; otherwise the trailing yield
\* fraction times 100 exactly when it is strictly between 0 and 0.20;
\* otherwise 0.0.  The result is never negative and never above 20.
YieldSanityAndFallback ==
    pc = "returned" =>
        /\ ~IsNaN(dy) /\ dy.den = 100
        /\ 0 <= dy.num /\ dy.num <= 2000
        /\ ComputedAccepted =>
              dy.num = RoundDiv(InfoRate[1] * 10000, InfoPrice[1])
        /\ (~ComputedAccepted /\ FallbackAccepted) =>
              dy.num = RoundDiv(InfoYield[1], 10)
        /\ (~ComputedAccepted /\ ~FallbackAccepted) => dy.num = 0

\* C9 witness: a dividend of 5.00 on a price of 10.00 (50 percent) with a
\* trailing yield of 0.035 has returned 3.50.
YieldSanityAndFallbackWitness ==
    /\ pc = "returned"
    /\ InfoRate = Some(500) /\ InfoPrice = Some(1000) /\ InfoYield = Some(3500)
    /\ dy = Rat(350, 100)

\* The table of scenario A: 12 records with the volatilities 5, 6, ..., 16
\* (in any order), momentum +10 and yield 2.0 throughout.
ScenarioA ==
    /\ Len(records) = 12
    /\ {records[k].volatility : k \in 1..Len(records)}
          = {Rat(v * 100, 100) : v \in 5..16}
    /\ \A k \in 1..Len(records) :
          records[k].momentum = Rat(1000, 100) /\ records[k].div_yield = Rat(200, 100)

\* The volatilities of the frame's rows, as a set.
Volatilities(frame) == {frame[k].volatility : k \in 1..Len(frame)}

\* C10.  End-to-end scenario A: on that table the volatility filter keeps
\* exactly the 4 rows of volatility 5, 6, 7, 8, the momentum filter keeps all
\* 4, the output has 4 entries, and the entries are in ascending volatility
\* order with strictly decreasing scores (rank 1 = volatility 5).
ScenarioAOutcome ==
    ScenarioA =>
        /\ Filtered =>
              /\ Len(df) = 4
              /\ Volatilities(df) = {Rat(v * 100, 100) : v \in 5..8}
        /\ pc \in {"output", "done"} =>
              /\ Len(top10) = 4
              /\ \A p \in 1..Len(top10) :
                    top10[p].volatility = Rat((4 + p) * 100, 100)
              /\ \A p \in 1..(Len(top10) - 1) : top10[p].score > top10[p + 1].score
        /\ output.written =>
              /\ Len(output.stocks) = 4
              /\ \A p \in 1..Len(output.stocks) :
                    /\ output.stocks[p].rank = p
                    /\ output.stocks[p].volatility = Rat((4 + p) * 100, 100)

\* C10 witness: the output of scenario A is written, from the table in
\* descending volatility order.
ScenarioAOutcomeWitness ==
    /\ ScenarioA /\ output.written
    /\ records[1].volatility = Rat(1600, 100)
    /\ top10[1].score = 525

====
